---- MODULE Spec2Model ----
(***************************************************************************)
(* A model of src/main.py: the bulk index check (check_index_bulk), the    *)
(* page diagnosis (get_ai_diagnosis) and the audit loop that combines      *)
(* them.  Strings are sequences of one-character strings, so that strip,   *)
(* rstrip, slicing and substring containment are computed, not assumed.    *)
(* A string literal of the program that is never taken apart is kept as    *)
(* one element.                                                            *)
(***************************************************************************)
EXTENDS Integers, Sequences, FiniteSets, TLC

VARIABLES
    prog,           \* what is run: "bulk", "diag" (one function) or "audit"
    pc,             \* the position of the run
    urls,           \* the URL list (for "diag": the one URL)
    i,              \* check_index_bulk: the offset of the next batch
    indexed_map,    \* check_index_bulk: the mapping being built
    index_results,  \* the mapping check_index_bulk returned
    replies,        \* what the backend answered, one entry per batch
    trace,          \* the outbound calls and pauses made so far, in order
    k,              \* audit: the number of URLs Step B has handled
    final_data,     \* audit: the records appended so far
    probes,         \* what the page fetch and the model answered, per diagnosis
    diags           \* the values get_ai_diagnosis returned, per diagnosis

vars == <<prog, pc, urls, i, indexed_map, index_results, replies, trace,
          k, final_data, probes, diags>>

(***************************************************************************)
(* Bounds of the model.                                                    *)
(***************************************************************************)
MaxUrls == 41        \* longest URL list given to check_index_bulk
MaxDetail == 2       \* lists up to this length get every reply array
MaxLines == 2        \* lines typed into the audit's text area
MaxNodes == 2        \* elements of a fetched page
MaxNodeLen == 1501   \* longest text of one page element

(***************************************************************************)
(* Program constants.                                                      *)
(***************************************************************************)
BATCH_SIZE == 20
SNIPPET_LEN == 1500
BATCH_SLEEP == 1
DIAG_SLEEP == 2
HTTP_OK == 200

(***************************************************************************)
(* Sequences and strings.                                                  *)
(***************************************************************************)
Min(a, b) == IF a < b THEN a ELSE b

Range(s) == {s[n] : n \in 1..Len(s)}

SeqsUpTo(S, n) == UNION {[1..m -> S] : m \in 0..n}

\* pat repeated cyclically up to length n
Cycle(pat, n) == [j \in 1..n |-> pat[((j - 1) % Len(pat)) + 1]]

Rep(c, n) == [j \in 1..n |-> c]

RECURSIVE LStripWs(_)
LStripWs(s) == IF s # <<>> /\ Head(s) = " " THEN LStripWs(Tail(s)) ELSE s

RECURSIVE RStripCh(_, _)
RStripCh(s, c) ==
    IF s # <<>> /\ s[Len(s)] = c THEN RStripCh(SubSeq(s, 1, Len(s) - 1), c) ELSE s

\* str.strip()
Strip(s) == RStripCh(LStripWs(s), " ")

\* str.rstrip('/')
RStripSlash(s) == RStripCh(s, "/")

\* a in b, for strings
Contains(a, b) ==
    \E o \in 0..(Len(b) - Len(a)) : SubSeq(b, o + 1, o + Len(a)) = a

\* s[:n]
Truncate(s, n) == SubSeq(s, 1, Min(Len(s), n))

(***************************************************************************)
(* The verdict mapping: a function from a set of URL strings to BOOLEAN.   *)
(***************************************************************************)
EmptyMap == [u \in {} |-> FALSE]

Put(m, u, v) == [x \in (DOMAIN m) \cup {u} |-> IF x = u THEN v ELSE m[x]]

\* dict.get(u, default)
Get(m, u, default) == IF u \in DOMAIN m THEN m[u] ELSE default

\* a failure that spills over the verdicts of the other batches
MarkFalseAll(m, batch) == [x \in (DOMAIN m) \cup Range(batch) |-> FALSE]

\* for u in batch_urls: indexed_map[u] = False
MarkFalse(m, batch) ==
    [x \in (DOMAIN m) \cup Range(batch) |-> IF x \in Range(batch) THEN FALSE ELSE m[x]]

(***************************************************************************)
(* Inputs: URL strings, search results, backend replies.                   *)
(***************************************************************************)
UrlPool == { <<"p">>, <<" ", "p", "/">>, <<"p", "2">> }

\* an organic item: a dict with a link, a dict without one (link ''), or
\* something that is no dict (ok = FALSE)
Item(link) == [ok |-> TRUE, link |-> link]
BadItem == [ok |-> FALSE, link |-> <<>>]

OrganicPool ==
    { <<>>,
      <<Item(<<"h", "p", "/">>)>>,
      <<Item(<<"p", "2">>)>>,
      <<Item(<<>>)>>,
      <<BadItem>>,
      <<Item(<<"h", "p", "/">>), BadItem>>,
      <<BadItem, Item(<<"h", "p", "/">>)>>,
      <<Item(<<"h">>), Item(<<"p", "2", "/", "/">>)>> }

\* a result-set: a dict with an organic list, or something that is no dict
ResultSet(organic) == [ok |-> TRUE, organic |-> organic]
BadResultSet == [ok |-> FALSE, organic |-> <<>>]

ResultSets == {BadResultSet} \cup {ResultSet(o) : o \in OrganicPool}

RsHit == ResultSet(<<Item(<<"h", "p", "/">>)>>)
RsMiss == ResultSet(<<Item(<<"h">>)>>)

\* the reply of the backend to one batch: the call raised, or an HTTP
\* response with a status and a body that is a JSON array or is not JSON
RaiseReply == [kind |-> "raise", status |-> 0, json |-> FALSE, results |-> <<>>]
HttpReply(status, json, results) ==
    [kind |-> "http", status |-> status, json |-> json, results |-> results]

ResultArrays(n, detail) ==
    IF detail
    THEN SeqsUpTo(ResultSets, n + 1)
    ELSE {Cycle(pat, len) : pat \in {<<RsHit>>, <<RsHit, RsMiss>>},
                            len \in {0, n - 1, n, n + 1}}

Replies(n, detail) ==
    {RaiseReply, HttpReply(429, FALSE, <<>>), HttpReply(HTTP_OK, FALSE, <<>>)}
        \cup {HttpReply(HTTP_OK, TRUE, rs) : rs \in ResultArrays(n, detail)}

(***************************************************************************)
(* check_index_bulk                                                        *)
(***************************************************************************)
\* {"q": f'"{u.strip()}"'}
Query(u) == <<"\"">> \o Strip(u) \o <<"\"">>

Payload(batch) == [j \in 1..Len(batch) |-> Query(batch[j])]

\* a slice one element too long
BatchAtOverlap(us, off) == SubSeq(us, off + 1, Min(off + BATCH_SIZE + 1, Len(us)))

\* urls[i : i + BATCH_SIZE], i counted from 0
BatchAt(us, off) == SubSeq(us, off + 1, Min(off + BATCH_SIZE, Len(us)))

\* equality in place of containment
LinkMatchesExact(url, item) == RStripSlash(Strip(url)) = RStripSlash(item.link)

\* url.strip().rstrip('/') in item.get('link', '').rstrip('/')
LinkMatches(url, item) ==
    Contains(RStripSlash(Strip(url)), RStripSlash(item.link))

\* any(... for item in res.get('organic', [])): "true", "false", or "raise"
\* when an item that is no dict is reached before a match
RECURSIVE AnyMatch(_, _, _)
AnyMatch(url, organic, n) ==
    IF n > Len(organic) THEN "false"
    ELSE IF ~organic[n].ok THEN "raise"
    ELSE IF LinkMatches(url, organic[n]) THEN "true"
    ELSE AnyMatch(url, organic, n + 1)

IsFound(url, res) == IF ~res.ok THEN "raise" ELSE AnyMatch(url, res.organic, 1)

\* for j, res in enumerate(results): ... indexed_map[url] = is_found
RECURSIVE MapResults(_, _, _, _)
MapResults(m, batch, results, j) ==
    IF j > Len(results) \/ j > Len(batch) THEN [map |-> m, raised |-> FALSE]
    ELSE LET found == IsFound(batch[j], results[j])
         IN  IF found = "raise" THEN [map |-> m, raised |-> TRUE]
             ELSE MapResults(Put(m, batch[j], found = "true"), batch, results, j + 1)

\* whether the iteration ends at the `continue` of the status check
StatusRejected(reply) == reply.kind = "http" /\ reply.status # HTTP_OK

\* whether the try block of one iteration raises
BatchRaises(m, batch, reply) ==
    \/ reply.kind = "raise"
    \/ reply.kind = "http" /\ reply.status = HTTP_OK /\ ~reply.json
    \/ reply.kind = "http" /\ reply.status = HTTP_OK /\ reply.json
         /\ MapResults(m, batch, reply.results, 1).raised

\* the mapping after one iteration of the loop over batches
HandleBatch(m, batch, reply) ==
    IF StatusRejected(reply) THEN MarkFalse(m, batch)
    ELSE IF BatchRaises(m, batch, reply) THEN MarkFalse(m, batch)
    ELSE MapResults(m, batch, reply.results, 1).map

\* whether time.sleep(1) is reached at the end of the iteration
SleepsAfter(reply) == ~StatusRejected(reply)

PostEv(payload) == [op |-> "post", payload |-> payload, url |-> <<>>, secs |-> 0,
                    title |-> <<>>, page_text |-> <<>>]
SleepEv(secs) == [op |-> "sleep", payload |-> <<>>, url |-> <<>>, secs |-> secs,
                  title |-> <<>>, page_text |-> <<>>]

BatchEvents(batch, reply) ==
    <<PostEv(Payload(batch))>> \o
        (IF SleepsAfter(reply) THEN <<SleepEv(BATCH_SLEEP)>> ELSE <<>>)

\* check_index_bulk as a function of the list and of the backend's replies:
\* the mapping after the batches c, c + 1, ... that have a reply in rs
RECURSIVE RunBatches(_, _, _, _)
RunBatches(m, us, rs, c) ==
    IF c > Len(rs) THEN m
    ELSE RunBatches(HandleBatch(m, BatchAt(us, (c - 1) * BATCH_SIZE), rs[c]),
                    us, rs, c + 1)

\* lists given to check_index_bulk: a short pattern of URLs repeated
UrlLists ==
    {Cycle(pat, n) : pat \in [1..1 -> UrlPool] \cup [1..2 -> UrlPool], n \in 1..MaxUrls}

Detailed == prog = "bulk" /\ Len(urls) <= MaxDetail

\* one iteration of `for i in range(0, len(urls), BATCH_SIZE)`
CheckBatch ==
    /\ pc = "bulk_loop"
    /\ i < Len(urls)
    /\ \E reply \in Replies(Len(BatchAt(urls, i)), Detailed) :
        LET batch == BatchAt(urls, i)
        IN  /\ indexed_map' = HandleBatch(indexed_map, batch, reply)
            /\ trace' = trace \o BatchEvents(batch, reply)
            /\ replies' = Append(replies, reply)
    /\ i' = i + BATCH_SIZE
    /\ UNCHANGED <<prog, pc, urls, index_results, k, final_data, probes, diags>>

\* return indexed_map
BulkReturn ==
    /\ pc = "bulk_loop"
    /\ i >= Len(urls)
    /\ index_results' = indexed_map
    /\ pc' = IF prog = "audit" THEN "audit_loop" ELSE "returned"
    /\ UNCHANGED <<prog, urls, i, indexed_map, replies, trace, k, final_data,
                   probes, diags>>

InitBulk ==
    /\ prog = "bulk"
    /\ pc = "bulk_loop"
    /\ urls \in UrlLists
    /\ i = 0
    /\ indexed_map = EmptyMap
    /\ index_results = EmptyMap
    /\ replies = <<>>
    /\ trace = <<>>
    /\ k = 0
    /\ final_data = <<>>
    /\ probes = <<>>
    /\ diags = <<>>

NextBulk == CheckBatch \/ BulkReturn

SpecBulk == InitBulk /\ [][NextBulk]_vars

(***************************************************************************)
(* get_ai_diagnosis                                                        *)
(***************************************************************************)
\* a fetched page: its elements in document order, each a tag with the
\* text inside it (<<>> for an element without text)
Node(tag, text) == [tag |-> tag, text |-> text]

NodeTexts(detail) ==
    { <<>>, <<" ", "x", " ">>, Rep("x", SNIPPET_LEN), Rep("x", MaxNodeLen) }

Pages(detail) ==
    IF detail
    THEN SeqsUpTo({Node(tag, text) : tag \in {"title", "p", "script", "style"},
                                     text \in NodeTexts(detail)},
                  MaxNodes)
    ELSE { <<>> }

\* the outcome of requests.get: an exception, or a response
Exc(type, msg) == [type |-> type, msg |-> msg]
FetchRaise(type, msg) ==
    [kind |-> "raise", exc |-> Exc(type, msg), status |-> 0, page |-> <<>>]
FetchHttp(status, page) ==
    [kind |-> "http", exc |-> Exc("", <<>>), status |-> status, page |-> page]

Fetches(detail) ==
    {FetchRaise("Timeout", <<"timed out">>),
     FetchRaise("ConnectionError", <<"refused">>),
     FetchRaise("MissingSchema", <<"Invalid URL">>),
     FetchHttp(404, <<>>), FetchHttp(204, <<>>)}
        \cup {FetchHttp(HTTP_OK, page) : page \in Pages(detail)}

\* the outcome of generate_content: a response with a text, a response
\* whose text is None, or an exception; "skipped" when it is not called
ModelText(text) == [kind |-> "text", text |-> text]
ModelNone == [kind |-> "none", text |-> <<>>]
ModelRaise == [kind |-> "raise", text |-> <<"quota">>]
ModelSkipped == [kind |-> "skipped", text |-> <<>>]

Models == {ModelText(<<" ", "x", " ">>), ModelText(<<" ">>), ModelNone, ModelRaise}

\* only error statuses are taken as a block
BlockedErrorsOnly(status) == status >= 400

\* res.status_code != 200
Blocked(status) == status # HTTP_OK

StatusMessage(status) ==
    <<"Site blocked the crawler (Status Code: ", ToString(status), ").">>

\* soup.title.string.strip() if soup.title and soup.title.string else url
PageTitle(page, url) ==
    LET titles == SelectSeq(page, LAMBDA n : n.tag = "title")
    IN  IF titles # <<>> /\ titles[1].text # <<>> THEN Strip(titles[1].text) ELSE url

\* for script in soup(["script", "style"]): script.extract()
Cleaned(page) == SelectSeq(page, LAMBDA n : n.tag \notin {"script", "style"})

\* soup.get_text(separator=' ', strip=True)
RECURSIVE JoinText(_, _)
JoinText(nodes, acc) ==
    IF nodes = <<>> THEN acc
    ELSE LET t == Strip(Head(nodes).text)
         IN  JoinText(Tail(nodes),
                      IF t = <<>> THEN acc
                      ELSE IF acc = <<>> THEN t
                      ELSE acc \o <<" ">> \o t)

GetText(page) == JoinText(page, <<>>)

\* the text without the cut
PageTextUncut(page) == GetText(Cleaned(page))

\* soup.get_text(separator=' ', strip=True)[:1500], after the clean-up
PageText(page) == Truncate(GetText(Cleaned(page)), SNIPPET_LEN)

GetEv(url) == [op |-> "get", payload |-> <<>>, url |-> url, secs |-> 0,
               title |-> <<>>, page_text |-> <<>>]
GenerateEv(url, title, page_text) ==
    [op |-> "generate", payload |-> <<>>, url |-> url, secs |-> 0,
     title |-> title, page_text |-> page_text]

Returned(value, events) == [raised |-> FALSE, value |-> value, events |-> events]

\* the except clauses without the one for ConnectionError
ExceptNoRefused(exc, events) ==
    IF exc.type = "Timeout"
    THEN Returned(<<"Error: Connection timed out (Site is slow).">>, events)
    ELSE Returned(<<"Error: ">> \o exc.msg, events)

\* the except clauses
Except(exc, events) ==
    IF exc.type = "Timeout"
    THEN Returned(<<"Error: Connection timed out (Site is slow).">>, events)
    ELSE IF exc.type = "ConnectionError"
    THEN Returned(<<"Error: Connection refused (Bot protection).">>, events)
    ELSE Returned(<<"Error: ">> \o exc.msg, events)

\* response.text.strip(), inside the try block
Answer(model, events) ==
    IF model.kind = "text" THEN Returned(Strip(model.text), events)
    ELSE IF model.kind = "none"
    THEN Except(Exc("AttributeError", <<"'NoneType' object has no attribute 'strip'">>),
                events)
    ELSE Except(Exc("Exception", model.text), events)

\* whether the call reaches generate_content
AsksModel(fetch) == fetch.kind = "http" /\ ~Blocked(fetch.status)

\* the value returned, whether the call raised instead, and the outbound
\* calls it made
GetAiDiagnosis(url, fetch, model) ==
    IF fetch.kind = "raise" THEN Except(fetch.exc, <<GetEv(url)>>)
    ELSE IF Blocked(fetch.status)
    THEN Returned(StatusMessage(fetch.status), <<GetEv(url)>>)
    ELSE Answer(model,
                <<GetEv(url),
                  GenerateEv(url, PageTitle(fetch.page, url), PageText(fetch.page))>>)

Probe(fetch, model) == [fetch |-> fetch, model |-> model]

Probes(detail) ==
    {Probe(f, m) : f \in {g \in Fetches(detail) : AsksModel(g)}, m \in Models}
        \cup {Probe(f, ModelSkipped) : f \in {g \in Fetches(detail) : ~AsksModel(g)}}

\* one call of get_ai_diagnosis on its own
DiagCall ==
    /\ pc = "diag_call"
    /\ \E probe \in Probes(TRUE) :
        LET r == GetAiDiagnosis(urls[1], probe.fetch, probe.model)
        IN  /\ trace' = trace \o r.events
            /\ diags' = Append(diags, r.value)
            /\ probes' = Append(probes, probe)
            /\ pc' = IF r.raised THEN "raised" ELSE "diag_done"
    /\ UNCHANGED <<prog, urls, i, indexed_map, index_results, replies, k, final_data>>

InitDiag ==
    /\ prog = "diag"
    /\ pc = "diag_call"
    /\ urls \in {<<u>> : u \in UrlPool}
    /\ i = 0
    /\ indexed_map = EmptyMap
    /\ index_results = EmptyMap
    /\ replies = <<>>
    /\ trace = <<>>
    /\ k = 0
    /\ final_data = <<>>
    /\ probes = <<>>
    /\ diags = <<>>

NextDiag == DiagCall

SpecDiag == InitDiag /\ [][NextDiag]_vars

(***************************************************************************)
(* The audit: Step A (bulk index check), Step B (diagnosis of the URLs     *)
(* that are not indexed).                                                  *)
(***************************************************************************)
\* [u.strip() for u in url_input.split('\n') if u.strip()]
ParseUrlInput(lines) ==
    LET stripped == [n \in 1..Len(lines) |-> Strip(lines[n])]
    IN  SelectSeq(stripped, LAMBDA u : u # <<>>)

LinePool == UrlPool \cup { <<" ">> }

\* a missing verdict taken as indexed
NeedsDiagnosisKnown(m, url) == ~Get(m, url, TRUE)

\* not index_results.get(url, False)
NeedsDiagnosis(m, url) == ~Get(m, url, FALSE)

Placeholder == <<"N/A (Indexed)">>

\* the record appended to final_data; diag is <<>> for None and for ''
Record(url, is_indexed, diag) ==
    [URL |-> url,
     Indexed |-> IF is_indexed THEN "Yes" ELSE "No",
     Diagnosis |-> IF diag # <<>> THEN diag ELSE Placeholder]

\* one iteration of `for i, url in enumerate(urls)`
AuditUrl ==
    /\ pc = "audit_loop"
    /\ k < Len(urls)
    /\ LET url == urls[k + 1]
       IN  IF NeedsDiagnosis(index_results, url)
           THEN \E probe \in Probes(FALSE) :
                   LET r == GetAiDiagnosis(url, probe.fetch, probe.model)
                   IN  /\ probes' = Append(probes, probe)
                       /\ diags' = Append(diags, r.value)
                       /\ IF r.raised
                          THEN /\ trace' = trace \o r.events
                               /\ pc' = "raised"
                               /\ UNCHANGED <<k, final_data>>
                          ELSE /\ trace' = trace \o r.events \o <<SleepEv(DIAG_SLEEP)>>
                               /\ final_data' = Append(final_data, Record(url, FALSE, r.value))
                               /\ k' = k + 1
                               /\ pc' = pc
           ELSE /\ final_data' = Append(final_data, Record(url, TRUE, <<>>))
                /\ k' = k + 1
                /\ UNCHANGED <<pc, trace, probes, diags>>
    /\ UNCHANGED <<prog, urls, i, indexed_map, index_results, replies>>

\* the loop is over: the results are displayed
AuditDone ==
    /\ pc = "audit_loop"
    /\ k >= Len(urls)
    /\ pc' = "done"
    /\ UNCHANGED <<prog, urls, i, indexed_map, index_results, replies, trace, k,
                   final_data, probes, diags>>

\* the state when the button is pressed with both keys and at least one URL
InitAudit ==
    /\ prog = "audit"
    /\ pc = "bulk_loop"
    /\ urls \in {ParseUrlInput(lines) : lines \in SeqsUpTo(LinePool, MaxLines)} \ {<<>>}
    /\ i = 0
    /\ indexed_map = EmptyMap
    /\ index_results = EmptyMap
    /\ replies = <<>>
    /\ trace = <<>>
    /\ k = 0
    /\ final_data = <<>>
    /\ probes = <<>>
    /\ diags = <<>>

NextAudit == CheckBatch \/ BulkReturn \/ AuditUrl \/ AuditDone

SpecAudit == InitAudit /\ [][NextAudit]_vars

(***************************************************************************)
(* Vocabulary of the properties of check_index_bulk, stated on the input   *)
(* list, on the replies received and on the events of the run.             *)
(***************************************************************************)
Posts == SelectSeq(trace, LAMBDA e : e.op = "post")
Sleeps(secs) == SelectSeq(trace, LAMBDA e : e.op = "sleep" /\ e.secs = secs)

\* the least c with c * d >= n
CeilDiv(n, d) == CHOOSE c \in 0..n : c * d >= n /\ \A b \in 0..n : b * d >= n => c <= b

\* the batch and the place in it of position p of the list (both from 1)
BatchNo(p) == ((p - 1) \div BATCH_SIZE) + 1
PlaceIn(p) == ((p - 1) % BATCH_SIZE) + 1
Slice(c) == {p \in 1..Len(urls) : BatchNo(p) = c}

\* an organic item holds a link that contains the URL
Hit(u, item) ==
    /\ item.ok
    /\ LET want == RStripCh(Strip(u), "/")
           have == RStripCh(item.link, "/")
       IN  \E a \in 0..Len(have) : \E b \in a..Len(have) : SubSeq(have, a + 1, b) = want

\* the result-set has a matching link, met before any malformed item
HasHit(u, res) ==
    /\ res.ok
    /\ \E n \in 1..Len(res.organic) :
          Hit(u, res.organic[n]) /\ \A m \in 1..(n - 1) : res.organic[m].ok

\* examining the result-set for the URL raises
Malformed(u, res) ==
    \/ ~res.ok
    \/ \E n \in 1..Len(res.organic) :
          ~res.organic[n].ok /\ \A m \in 1..(n - 1) : ~Hit(u, res.organic[m])

\* batch c failed: non-200 status, or the request or the handling raised
FailedBatch(c) ==
    LET r == replies[c]
    IN  \/ r.kind = "raise"
        \/ r.status # 200
        \/ ~r.json
        \/ \E p \in Slice(c) :
              PlaceIn(p) <= Len(r.results) /\ Malformed(urls[p], r.results[PlaceIn(p)])

\* position p was given a verdict by its batch
Received(p) == FailedBatch(BatchNo(p)) \/ PlaceIn(p) <= Len(replies[BatchNo(p)].results)

Verdict(m, u) == IF u \in DOMAIN m THEN (IF m[u] THEN "true" ELSE "false") ELSE "unset"

\* C1: after check_index_bulk returns, the keys of the returned mapping are
\* exactly the URLs supplied, whatever the backend answered.
C1_EveryUrlKeyed ==
    pc = "returned" => DOMAIN index_results = Range(urls)

\* C3: a 1-unit pause follows every batch, whatever its outcome and also
\* after the last one: as many pauses as batches, one after each call.
C3_PauseAfterEveryBatch ==
    pc = "returned" =>
        /\ Len(Sleeps(1)) = Len(Posts)
        /\ \A n \in 1..Len(trace) :
              trace[n].op = "post" => n < Len(trace) /\ trace[n + 1] = SleepEv(1)

\* C4: ceil(N/20) backend calls whichever batches fail; the c-th call holds
\* one query per URL of the c-th slice of at most 20 URLs, in input order.
C4_BatchPartition ==
    /\ pc = "returned" => Len(Posts) = CeilDiv(Len(urls), 20)
    /\ Len(Posts) = Len(replies)
    /\ \A c \in 1..Len(Posts) :
          /\ Len(Posts[c].payload) = Cardinality(Slice(c))
          /\ Len(Posts[c].payload) <= 20
          /\ c < Len(Posts) => Len(Posts[c].payload) = 20
          /\ \A p \in Slice(c) :
                Posts[c].payload[PlaceIn(p)] = <<"\"">> \o Strip(urls[p]) \o <<"\"">>

C4_Witness ==
    /\ pc = "returned"
    /\ Len(urls) = 41
    /\ Len(Posts) = 3
    /\ Len(Posts[3].payload) = 1
    /\ replies[1].kind = "raise"
    /\ replies[2].status = 429

\* the URLs of batch c
UrlsOf(c) == {urls[p] : p \in Slice(c)}

\* the mapping returned had batch c been answered by alt
Otherwise(c, alt) == RunBatches(EmptyMap, urls, [replies EXCEPT ![c] = alt], 1)

\* C2 as stated: a failed batch leaves each of its URLs false in the returned
\* mapping, also when a URL occurs in more than one batch; later batches are
\* still submitted, and the verdicts of the URLs of the other batches are
\* what they would be with any other reply to the failed batch.
C2_FailedBatchAllFalse ==
    pc = "returned" =>
        \A c \in 1..Len(replies) : FailedBatch(c) =>
            /\ Len(replies) = CeilDiv(Len(urls), 20)
            /\ \A u \in UrlsOf(c) : Verdict(index_results, u) = "false"
            /\ \A u \in Range(urls) \ UrlsOf(c) :
                  \A alt \in Replies(Cardinality(Slice(c)), Detailed) :
                      Verdict(Otherwise(c, alt), u) = Verdict(index_results, u)

\* C2 amended: a failed batch leaves false each of its URLs that no later
\* batch holds again, later batches are still submitted, and the verdict of
\* every URL that the failed batch does not hold is what it would be with
\* any other reply to the failed batch.
C2_FailedBatchIsolated ==
    pc = "returned" =>
        \A c \in 1..Len(replies) : FailedBatch(c) =>
            /\ Len(replies) = CeilDiv(Len(urls), 20)
            /\ \A u \in UrlsOf(c) :
                  (\A d \in (c + 1)..Len(replies) : u \notin UrlsOf(d))
                      => Verdict(index_results, u) = "false"
            /\ \A u \in Range(urls) \ UrlsOf(c) :
                  \A alt \in Replies(Cardinality(Slice(c)), Detailed) :
                      Verdict(Otherwise(c, alt), u) = Verdict(index_results, u)

C2_Witness ==
    /\ pc = "returned"
    /\ Len(replies) = 2
    /\ replies[1] = HttpReply(200, TRUE, Cycle(<<RsHit>>, 20))
    /\ replies[2].status = 429
    /\ \E u \in UrlsOf(1) \ UrlsOf(2) : Verdict(index_results, u) = "true"
    /\ \A u \in UrlsOf(2) : Verdict(index_results, u) = "false"

\* C7 as stated: a URL of the returned mapping is true exactly when it stood
\* in a batch that succeeded, at a position whose result-set holds a link
\* containing it.
C7_TrueIffSomeMatch ==
    pc = "returned" =>
        \A u \in DOMAIN index_results :
            index_results[u] <=>
                \E p \in 1..Len(urls) :
                    /\ urls[p] = u
                    /\ ~FailedBatch(BatchNo(p))
                    /\ PlaceIn(p) <= Len(replies[BatchNo(p)].results)
                    /\ HasHit(u, replies[BatchNo(p)].results[PlaceIn(p)])

\* C7 amended: a URL of the returned mapping is true exactly when the last
\* of its positions that was given a verdict stood in a batch that succeeded
\* (status 200 and no exception while handling the reply) and the result-set
\* at that position holds a link containing it.
C7_TrueIffLastMatch ==
    pc = "returned" =>
        \A u \in DOMAIN index_results :
            LET given == {p \in 1..Len(urls) : urls[p] = u /\ Received(p)}
            IN  /\ given # {}
                /\ LET p == CHOOSE q \in given : \A r \in given : r <= q
                   IN  index_results[u] <=>
                           /\ ~FailedBatch(BatchNo(p))
                           /\ HasHit(u, replies[BatchNo(p)].results[PlaceIn(p)])

C7_Witness ==
    /\ pc = "returned"
    /\ urls = << <<"p">>, <<"p">> >>
    /\ replies[1] = HttpReply(200, TRUE,
                              << ResultSet(<<Item(<<>>)>>),
                                 ResultSet(<<Item(<<"p", "2">>)>>) >>)
    /\ index_results[<<"p">>] = TRUE

(***************************************************************************)
(* Properties of get_ai_diagnosis and of the audit.                        *)
(***************************************************************************)
Gets == SelectSeq(trace, LAMBDA e : e.op = "get")
Generates == SelectSeq(trace, LAMBDA e : e.op = "generate")

\* the kind of string a returned value is, told from the string alone
Category(value) ==
    IF value = <<"Error: Connection timed out (Site is slow).">> THEN "timeout"
    ELSE IF value = <<"Error: Connection refused (Bot protection).">> THEN "refused"
    ELSE IF value # <<>> /\ value[1] = "Site blocked the crawler (Status Code: "
    THEN "status"
    ELSE "other"

\* C5: get_ai_diagnosis never raises, whatever the fetch and the model call
\* do; a 404, a 200 with an empty body, a timeout and a refused connection
\* give strings of four different kinds.
C5_NeverRaisesFourKinds ==
    /\ pc # "raised"
    /\ pc = "diag_done" =>
          LET f == probes[1].fetch
              kind == Category(diags[1])
          IN  /\ Len(diags) = 1
              /\ (f.kind = "raise" /\ f.exc.type = "Timeout") => kind = "timeout"
              /\ (f.kind = "raise" /\ f.exc.type = "ConnectionError") => kind = "refused"
              /\ (f.kind = "http" /\ f.status = 404) =>
                    diags[1] = <<"Site blocked the crawler (Status Code: ", "404", ").">>
              /\ (f.kind = "http" /\ f.status = 200 /\ f.page = <<>>) => kind = "other"

C5_Witness ==
    /\ pc = "diag_done"
    /\ probes[1].fetch = FetchHttp(200, <<>>)
    /\ probes[1].model = ModelNone
    /\ diags[1][1] = "Error: "

\* C6 as stated: the status-code string is returned, with no model call,
\* exactly when the fetch answers with a non-2xx status; every 2xx answer
\* leads to one model call; neither call is repeated.
C6_StatusStringIffNot2xx ==
    pc = "diag_done" =>
        LET f == probes[1].fetch
        IN  /\ (Category(diags[1]) = "status" /\ Len(Generates) = 0)
                  <=> (f.kind = "http" /\ f.status \notin 200..299)
            /\ (f.kind = "http" /\ f.status \in 200..299) => Len(Generates) = 1
            /\ Len(Gets) = 1
            /\ Len(Generates) <= 1

\* C6 amended: the status-code string is returned, with no model call,
\* exactly when the fetch answers with a status other than 200; an answer
\* with status 200 leads to one model call, on the title and the text taken
\* from the body; neither call is repeated.
C6_StatusStringIffNot200 ==
    pc = "diag_done" =>
        LET f == probes[1].fetch
        IN  /\ (Category(diags[1]) = "status" /\ Len(Generates) = 0)
                  <=> (f.kind = "http" /\ f.status # 200)
            /\ (f.kind = "http" /\ f.status # 200) =>
                  diags[1][2] = ToString(f.status)
            /\ (f.kind = "http" /\ f.status = 200) =>
                  /\ Len(Generates) = 1
                  /\ Generates[1].url = urls[1]
                  /\ (\A n \in 1..Len(f.page) : f.page[n].tag \in {"script", "style"})
                        => Generates[1].page_text = <<>>
                  /\ (\E n \in 1..Len(f.page) :
                        f.page[n].tag \notin {"script", "style"} /\ f.page[n].text # <<>>)
                        => Generates[1].page_text # <<>>
            /\ Len(Gets) = 1
            /\ Len(Generates) <= 1

C6_Witness ==
    /\ pc = "diag_done"
    /\ probes[1].fetch = FetchHttp(204, <<>>)
    /\ diags[1] = <<"Site blocked the crawler (Status Code: ", "204", ").">>
    /\ Len(Generates) = 0

\* C10: the page text of every model call is at most 1500 characters long.
C10_SnippetBounded ==
    \A n \in 1..Len(trace) :
        trace[n].op = "generate" => Len(trace[n].page_text) <= 1500

C10_Witness ==
    /\ pc = "diag_done"
    /\ probes[1].fetch.kind = "http"
    /\ \E n \in 1..Len(probes[1].fetch.page) :
          probes[1].fetch.page[n].tag = "p" /\ Len(probes[1].fetch.page[n].text) > 1500
    /\ Len(Generates) = 1
    /\ Len(Generates[1].page_text) = 1500

\* the URLs handled so far by Step B that are not marked indexed
RECURSIVE NotIndexed(_)
NotIndexed(n) ==
    IF n = 0 THEN <<>>
    ELSE NotIndexed(n - 1) \o
            (IF Verdict(index_results, urls[n]) = "true" THEN <<>> ELSE <<urls[n]>>)

\* C8: the bulk check is over before any diagnosis starts; the URLs are then
\* handled in input order; a URL is diagnosed exactly when its verdict is
\* false or missing; a 2-unit pause follows each diagnosis and nothing else.
C8_AuditOrderAndPauses ==
    /\ pc = "bulk_loop" => Len(Gets) = 0 /\ k = 0 /\ final_data = <<>>
    /\ \A n \in 1..Len(trace) : \A m \in 1..Len(trace) :
          (trace[n].op = "get" /\ trace[m].op = "post") => m < n
    /\ pc \in {"audit_loop", "done"} =>
          /\ index_results = indexed_map
          /\ Len(Posts) = CeilDiv(Len(urls), 20)
          /\ [n \in 1..Len(final_data) |-> final_data[n].URL] = SubSeq(urls, 1, k)
          /\ [n \in 1..Len(Gets) |-> Gets[n].url] = NotIndexed(k)
          /\ Len(Sleeps(2)) = Len(Gets)
          /\ \A n \in 1..Len(trace) :
                trace[n].op = "get" =>
                    \E m \in (n + 1)..Len(trace) :
                        /\ trace[m] = SleepEv(2)
                        /\ \A l \in (n + 1)..(m - 1) : trace[l].op = "generate"
    /\ pc = "done" => k = Len(urls)

C8_Witness ==
    /\ pc = "done"
    /\ Len(urls) = 2
    /\ Verdict(index_results, urls[1]) = "true"
    /\ Verdict(index_results, urls[2]) = "unset"
    /\ Len(Gets) = 1
    /\ Gets[1].url = urls[2]
    /\ trace[Len(trace)] = SleepEv(2)

\* C9: one record per input URL, in input order; the placeholder exactly on
\* the records marked indexed; a record marked not indexed holds the value
\* get_ai_diagnosis returned for its URL, which is not empty.
C9_RecordsCarryDiagnosis ==
    pc = "done" =>
        /\ Len(final_data) = Len(urls)
        /\ \A n \in 1..Len(final_data) :
              LET rec == final_data[n]
                  call == Cardinality({m \in 1..n : final_data[m].Indexed = "No"})
              IN  /\ rec.URL = urls[n]
                  /\ rec.Diagnosis = <<"N/A (Indexed)">> <=> rec.Indexed = "Yes"
                  /\ rec.Indexed = "No" =>
                        rec.Diagnosis # <<>> /\ rec.Diagnosis = diags[call]

====
